---- MODULE Spec2Model ----
(***************************************************************************)
(* Bronze -> silver analytics pipeline of rift-rewind:                     *)
(*   - the SQS handler computeSilverAnalytics (dedup guard, batch report), *)
(*   - SilverAnalyticsService (score engine, timeline extractor, rolling   *)
(*     aggregator),                                                        *)
(*   - AnalyticsRepository (ON CONFLICT upserts into the silver tables).   *)
(*                                                                         *)
(* Numbers.  Scores are decimals rounded to one place; they are kept here  *)
(* as integers in tenths (100.0 is 1000).  JavaScript doubles are taken as *)
(* exact rationals.  A nullable column is <<>> for NULL and <<v>> for v.   *)
(***************************************************************************)
EXTENDS Integers, Sequences, FiniteSets, Bags, TLC

VARIABLES
  participantAnalytics,  \* table match_participant_analytics: bag of rows
  timelineAnalytics,     \* table match_timeline_analytics: bag of rows
  rollingAnalytics,      \* table player_rolling_analytics: bag of rows
  faults,                \* store errors injected so far
  visible,               \* SQS: ids of the messages visible in the queue
  receives,              \* SQS: receive count of each message
  dlq,                   \* SQS: ids of the messages moved to the dead-letter queue
  wk,                    \* one record per lambda worker: position and locals
  snap,                  \* history: silver rows of a match when it first got DONE
  partial,               \* history: messages that FAILED after some silver write
  sc,                    \* score engine: inputs and outputs of one evaluation
  ops                    \* direct repository calls: how many, and the last one

vars == <<participantAnalytics, timelineAnalytics, rollingAnalytics, faults,
          visible, receives, dlq, wk, snap, partial, sc, ops>>

pipelineVars == <<participantAnalytics, timelineAnalytics, faults,
                  visible, receives, dlq, wk, snap, partial>>

----------------------------------------------------------------------------
(* Nullable values *)

Null == <<>>

Some(v) == <<v>>

IsNull(x) == x = <<>>

Val(x) == x[1]

Range(s) == {s[i] : i \in 1..Len(s)}

----------------------------------------------------------------------------
(* Score engine: normalisation to 0-100 and the weighted overall score.    *)

\* Math.round(n / d) for d > 0: the nearest integer, halves towards +infinity
MathRound(n, d) == (2 * n + d) \div (2 * d)

\* Math.round(Math.min(100, Math.max(0, x)) * 10) / 10 in tenths, x * 10 = n / d
\* with d # 0 (a negative duration makes d negative)
ClampRound(n, d) ==
  LET num == IF d < 0 THEN -n ELSE n
      den == IF d < 0 THEN -d ELSE d
  IN IF num <= 0 THEN 0
     ELSE IF num >= 1000 * den THEN 1000
     ELSE MathRound(num, den)

\* gold_per_minute = goldEarned / (durationSeconds / 60); falsy (0) gives null;
\* ((gpm - 300) / 300) * 100 in tenths is (200 * gold - 1000 * dur) / dur
normalizeEconomyScore(goldEarned, durationSeconds) ==
  IF goldEarned = 0 THEN Null
  ELSE Some(ClampRound(200 * goldEarned - 1000 * durationSeconds, durationSeconds))

\* objective_participation_rate: null unless the participant has a takedown
\* and the team total is positive; otherwise the exact rational
\* totalParticipation * 100 / teamTotal, kept as <<numerator, denominator>>
objectiveParticipationRate(baron, dragon, tower, teamTotal) ==
  LET totalParticipation == baron + dragon + tower IN
  IF totalParticipation > 0 /\ teamTotal > 0
  THEN Some(<<totalParticipation * 100, teamTotal>>)
  ELSE Null

\* Math.round(rate * 10) / 10 in tenths, with no clamp
normalizeObjectivesScore(rate) ==
  IF IsNull(rate) THEN Null
  ELSE Some(MathRound(Val(rate)[1] * 10, Val(rate)[2]))

\* (vspm / 2.0) * 100 in tenths is 30000 * visionScore / dur; falsy gives null
normalizeMapControlScore(visionScore, durationSeconds) ==
  IF visionScore = 0 THEN Null
  ELSE Some(ClampRound(30000 * visionScore, durationSeconds))

\* (1 - dpm / 0.3) * 100 in tenths is (1000 * dur - 200000 * deaths) / dur
normalizeErrorScore(deaths, durationSeconds) ==
  Some(ClampRound(1000 * durationSeconds - 200000 * deaths, durationSeconds))

\* weights 0.3, 0.25, 0.20, 0.25 in hundredths
WeightEconomy == 30
WeightObjectives == 25
WeightMapControl == 20
WeightErrors == 25

\* variant: the weighted sum is divided by the full weight, not renormalised
computeOverallScore_fixedWeights(economyScore, objectivesScore, mapControlScore, errorRateScore) ==
  LET v(s, k) == IF IsNull(s) THEN 0 ELSE Val(s) * k
      weightedSum == v(economyScore, WeightEconomy) + v(objectivesScore, WeightObjectives)
                     + v(mapControlScore, WeightMapControl) + v(errorRateScore, WeightErrors)
  IN IF IsNull(economyScore) /\ IsNull(objectivesScore) /\ IsNull(mapControlScore)
        /\ IsNull(errorRateScore)
     THEN Null ELSE Some(MathRound(weightedSum, 100))

\* variant: one missing category makes the overall score null
computeOverallScore_anyNull(economyScore, objectivesScore, mapControlScore, errorRateScore) ==
  IF IsNull(economyScore) \/ IsNull(objectivesScore) \/ IsNull(mapControlScore)
     \/ IsNull(errorRateScore)
  THEN Null
  ELSE Some(MathRound(Val(economyScore) * 30 + Val(objectivesScore) * 25
                      + Val(mapControlScore) * 20 + Val(errorRateScore) * 25, 100))

computeOverallScore(economyScore, objectivesScore, mapControlScore, errorRateScore) ==
  LET w(s, k) == IF IsNull(s) THEN 0 ELSE k
      v(s, k) == IF IsNull(s) THEN 0 ELSE Val(s) * k
      totalWeight == w(economyScore, WeightEconomy) + w(objectivesScore, WeightObjectives)
                     + w(mapControlScore, WeightMapControl) + w(errorRateScore, WeightErrors)
      weightedSum == v(economyScore, WeightEconomy) + v(objectivesScore, WeightObjectives)
                     + v(mapControlScore, WeightMapControl) + v(errorRateScore, WeightErrors)
  IN IF totalWeight = 0 THEN Null ELSE Some(MathRound(weightedSum, totalWeight))

\* the five composite scores of one participant, as computeParticipantAnalytics
\* derives them from the raw stats, the duration and the objective counts
compositeScores(goldEarned, visionScore, deaths, durationSeconds, baron, dragon, tower, teamTotal) ==
  LET economyScore == normalizeEconomyScore(goldEarned, durationSeconds)
      rate == objectiveParticipationRate(baron, dragon, tower, teamTotal)
      objectivesScore == normalizeObjectivesScore(rate)
      mapControlScore == normalizeMapControlScore(visionScore, durationSeconds)
      errorRateScore == normalizeErrorScore(deaths, durationSeconds)
  IN [ economy_score |-> economyScore,
       objectives_score |-> objectivesScore,
       map_control_score |-> mapControlScore,
       error_rate_score |-> errorRateScore,
       overall_performance_score |->
         computeOverallScore(economyScore, objectivesScore, mapControlScore, errorRateScore) ]

----------------------------------------------------------------------------
(* Bronze layer: raw rows written by the ingestion stage.  The silver      *)
(* stage only reads them.                                                  *)

\* table match: id -> queue_id, duration_seconds, started_at
Match ==
  [ M1 |-> [queue_id |-> 420, duration_seconds |-> 2110, started_at |-> 1],
    M2 |-> [queue_id |-> 440, duration_seconds |-> 1500, started_at |-> 2],
    M3 |-> [queue_id |-> 400, duration_seconds |-> 900,  started_at |-> 3],
    M4 |-> [queue_id |-> 420, duration_seconds |-> -60,  started_at |-> 4],
    M5 |-> [queue_id |-> 420, duration_seconds |-> 1800, started_at |-> 5],
    M6 |-> [queue_id |-> 420, duration_seconds |-> 1800, started_at |-> 6] ]

MatchIds == DOMAIN Match

\* table match_participant (UNIQUE (match_id, participant_id))
MatchParticipant ==
  { [id |-> "pt11", match_id |-> "M1", player_profile_id |-> Some("P1"),
     participant_id |-> 1, team_id |-> 100, champion_id |-> 36,
     team_position |-> "TOP", gold_earned |-> 15653,
     kills |-> 8, deaths |-> 6, assists |-> 12, vision_score |-> 42, win |-> TRUE],
    [id |-> "pt12", match_id |-> "M1", player_profile_id |-> Some("P2"),
     participant_id |-> 2, team_id |-> 200, champion_id |-> 17,
     team_position |-> "TOP", gold_earned |-> 9000,
     kills |-> 0, deaths |-> 9, assists |-> 0, vision_score |-> 0, win |-> FALSE],
    [id |-> "pt21", match_id |-> "M2", player_profile_id |-> Some("P1"),
     participant_id |-> 1, team_id |-> 100, champion_id |-> 36,
     team_position |-> "MID", gold_earned |-> 0,
     kills |-> 3, deaths |-> 2, assists |-> 1, vision_score |-> 60, win |-> FALSE],
    [id |-> "pt22", match_id |-> "M2", player_profile_id |-> Null,
     participant_id |-> 2, team_id |-> 200, champion_id |-> 17,
     team_position |-> "MID", gold_earned |-> 12000,
     kills |-> 2, deaths |-> 3, assists |-> 4, vision_score |-> 10, win |-> TRUE],
    [id |-> "pt31", match_id |-> "M3", player_profile_id |-> Some("P2"),
     participant_id |-> 1, team_id |-> 100, champion_id |-> 17,
     team_position |-> "TOP", gold_earned |-> 7000,
     kills |-> 1, deaths |-> 1, assists |-> 1, vision_score |-> 5, win |-> TRUE],
    [id |-> "pt41", match_id |-> "M4", player_profile_id |-> Some("P2"),
     participant_id |-> 1, team_id |-> 100, champion_id |-> 17,
     team_position |-> "TOP", gold_earned |-> 500,
     kills |-> 0, deaths |-> 1, assists |-> 0, vision_score |-> 2, win |-> FALSE],
    [id |-> "pt51", match_id |-> "M5", player_profile_id |-> Some("P1"),
     participant_id |-> 1, team_id |-> 100, champion_id |-> 36,
     team_position |-> "TOP", gold_earned |-> 18000,
     kills |-> 5, deaths |-> 2, assists |-> 7, vision_score |-> 30, win |-> TRUE] }

\* table match_team (UNIQUE (match_id, team_id))
MatchTeam ==
  { [match_id |-> "M1", team_id |-> 100, barons |-> 0, dragons |-> 1, towers |-> 3],
    [match_id |-> "M1", team_id |-> 200, barons |-> 0, dragons |-> 0, towers |-> 0],
    [match_id |-> "M2", team_id |-> 100, barons |-> 0, dragons |-> 0, towers |-> 1],
    [match_id |-> "M2", team_id |-> 200, barons |-> 1, dragons |-> 0, towers |-> 2],
    [match_id |-> "M3", team_id |-> 100, barons |-> 0, dragons |-> 0, towers |-> 0],
    [match_id |-> "M4", team_id |-> 100, barons |-> 0, dragons |-> 0, towers |-> 0],
    [match_id |-> "M5", team_id |-> 100, barons |-> 0, dragons |-> 0, towers |-> 0] }

\* table match_timeline_event
MatchTimelineEvent ==
  { [match_id |-> "M1", timestamp_ms |-> 125000, event_type |-> "CHAMPION_KILL",
     killer_participant_id |-> 1, assisting_participant_ids |-> {},
     monster_type |-> "", building_type |-> ""],
    [match_id |-> "M1", timestamp_ms |-> 300000, event_type |-> "CHAMPION_KILL",
     killer_participant_id |-> 2, assisting_participant_ids |-> {},
     monster_type |-> "", building_type |-> ""],
    [match_id |-> "M1", timestamp_ms |-> 600000, event_type |-> "ELITE_MONSTER_KILL",
     killer_participant_id |-> 1, assisting_participant_ids |-> {},
     monster_type |-> "DRAGON", building_type |-> ""],
    [match_id |-> "M1", timestamp_ms |-> 845000, event_type |-> "BUILDING_KILL",
     killer_participant_id |-> 0, assisting_participant_ids |-> {1},
     monster_type |-> "", building_type |-> "TOWER_BUILDING"],
    [match_id |-> "M2", timestamp_ms |-> 900000, event_type |-> "ELITE_MONSTER_KILL",
     killer_participant_id |-> 2, assisting_participant_ids |-> {},
     monster_type |-> "BARON_NASHOR", building_type |-> ""] }

participantsOf(matchId) == {p \in MatchParticipant : p.match_id = matchId}

----------------------------------------------------------------------------
(* SilverAnalyticsService.computeParticipantAnalytics: the row of one      *)
(* participant.                                                            *)

\* SELECT COUNT(*) of the events of one kind the participant killed or assisted
participationCount(matchId, inGameParticipantId, eventType, monsterType, buildingType) ==
  Cardinality({e \in MatchTimelineEvent :
     /\ e.match_id = matchId
     /\ e.event_type = eventType
     /\ e.monster_type = monsterType
     /\ e.building_type = buildingType
     /\ \/ e.killer_participant_id = inGameParticipantId
        \/ inGameParticipantId \in e.assisting_participant_ids})

\* COALESCE(barons, 0) + COALESCE(dragons, 0) + COALESCE(towers, 0), 0 without a row
teamObjectivesTotal(matchId, teamId) ==
  LET rows == {t \in MatchTeam : t.match_id = matchId /\ t.team_id = teamId} IN
  IF rows = {} THEN 0
  ELSE LET t == CHOOSE r \in rows : TRUE IN t.barons + t.dragons + t.towers

RECURSIVE sumKills(_)
sumKills(S) ==
  IF S = {} THEN 0
  ELSE LET p == CHOOSE q \in S : TRUE IN p.kills + sumKills(S \ {p})

\* SELECT SUM(mp.kills) over the participant's team
teamKillsOf(matchId, inGameParticipantId) ==
  LET own == {p \in participantsOf(matchId) : p.participant_id = inGameParticipantId}
      teams == {p.team_id : p \in own}
  IN sumKills({p \in participantsOf(matchId) : p.team_id \in teams})

\* variant: a team without kills gives 0 instead of null
killParticipation_zeroForNoKills(kills, assists, teamKills) ==
  IF teamKills > 0 THEN Some(<<(kills + assists) * 100, teamKills>>) ELSE Some(<<0, 1>>)

\* (kills + assists) / teamKills * 100 as <<numerator, denominator>>, null for 0
killParticipation(kills, assists, teamKills) ==
  IF teamKills > 0 THEN Some(<<(kills + assists) * 100, teamKills>>) ELSE Null

\* variant: the overall score of a participant drifts with the number of rows
\* already stored, that is with processing order and history
participantAnalyticsData_orderDependent(p) ==
  LET m == p.match_id
      dur == Match[m].duration_seconds
      baron == participationCount(m, p.participant_id, "ELITE_MONSTER_KILL", "BARON_NASHOR", "")
      dragon == participationCount(m, p.participant_id, "ELITE_MONSTER_KILL", "DRAGON", "")
      tower == participationCount(m, p.participant_id, "BUILDING_KILL", "", "TOWER_BUILDING")
      teamTotal == teamObjectivesTotal(m, p.team_id)
      scores == compositeScores(p.gold_earned, p.vision_score, p.deaths, dur,
                                baron, dragon, tower, teamTotal)
      seen == Cardinality({r \in BagToSet(participantAnalytics) : r.match_id = m})
  IN [ match_participant_id |-> p.id,
       match_id |-> m,
       player_profile_id |-> p.player_profile_id,
       objective_participation_rate |-> objectiveParticipationRate(baron, dragon, tower, teamTotal),
       baron_participation |-> baron,
       dragon_participation |-> dragon,
       tower_participation |-> tower,
       kill_participation |->
         killParticipation(p.kills, p.assists, teamKillsOf(m, p.participant_id)),
       economy_score |-> scores.economy_score,
       objectives_score |-> scores.objectives_score,
       map_control_score |-> scores.map_control_score,
       error_rate_score |-> scores.error_rate_score,
       overall_performance_score |->
         IF IsNull(scores.overall_performance_score) THEN Null
         ELSE Some((Val(scores.overall_performance_score) + seen) % 1001) ]

\* the ParticipantAnalyticsData built for one match_participant row
participantAnalyticsData(p) ==
  LET m == p.match_id
      dur == Match[m].duration_seconds
      baron == participationCount(m, p.participant_id, "ELITE_MONSTER_KILL", "BARON_NASHOR", "")
      dragon == participationCount(m, p.participant_id, "ELITE_MONSTER_KILL", "DRAGON", "")
      tower == participationCount(m, p.participant_id, "BUILDING_KILL", "", "TOWER_BUILDING")
      teamTotal == teamObjectivesTotal(m, p.team_id)
      scores == compositeScores(p.gold_earned, p.vision_score, p.deaths, dur,
                                baron, dragon, tower, teamTotal)
  IN [ match_participant_id |-> p.id,
       match_id |-> m,
       player_profile_id |-> p.player_profile_id,
       objective_participation_rate |-> objectiveParticipationRate(baron, dragon, tower, teamTotal),
       baron_participation |-> baron,
       dragon_participation |-> dragon,
       tower_participation |-> tower,
       kill_participation |->
         killParticipation(p.kills, p.assists, teamKillsOf(m, p.participant_id)),
       economy_score |-> scores.economy_score,
       objectives_score |-> scores.objectives_score,
       map_control_score |-> scores.map_control_score,
       error_rate_score |-> scores.error_rate_score,
       overall_performance_score |-> scores.overall_performance_score ]

----------------------------------------------------------------------------
(* SilverAnalyticsService.computeTimelineAnalytics: the row of one match.  *)

\* ORDER BY timestamp_ms ASC LIMIT 1 over the events of one kind
firstEvents(matchId, eventType, buildingType) ==
  LET evs == {e \in MatchTimelineEvent :
                /\ e.match_id = matchId
                /\ e.event_type = eventType
                /\ e.building_type = buildingType}
  IN {e \in evs : \A f \in evs : e.timestamp_ms <= f.timestamp_ms}

\* SELECT team_id FROM match_participant WHERE participant_id = killer
teamOfParticipant(matchId, inGameParticipantId) ==
  LET rows == {p \in participantsOf(matchId) : p.participant_id = inGameParticipantId} IN
  IF rows = {} THEN Null ELSE Some((CHOOSE p \in rows : TRUE).team_id)

timelineAnalyticsData(matchId) ==
  LET blood == firstEvents(matchId, "CHAMPION_KILL", "")
      tower == firstEvents(matchId, "BUILDING_KILL", "TOWER_BUILDING")
      fb == CHOOSE e \in blood : TRUE
      ft == CHOOSE e \in tower : TRUE
  IN [ match_id |-> matchId,
       first_blood_timestamp_ms |-> IF blood = {} THEN Null ELSE Some(fb.timestamp_ms),
       first_blood_team_id |->
         IF blood = {} THEN Null ELSE teamOfParticipant(matchId, fb.killer_participant_id),
       first_blood_killer_participant_id |->
         IF blood = {} THEN Null ELSE Some(fb.killer_participant_id),
       first_tower_timestamp_ms |-> IF tower = {} THEN Null ELSE Some(ft.timestamp_ms),
       first_tower_team_id |->
         IF tower = {} THEN Null ELSE teamOfParticipant(matchId, ft.killer_participant_id),
       first_dragon_timestamp_ms |-> Null,
       first_dragon_team_id |-> Null,
       first_baron_timestamp_ms |-> Null,
       first_baron_team_id |-> Null ]

----------------------------------------------------------------------------
(* AnalyticsRepository: INSERT ... ON CONFLICT ... DO UPDATE on the silver *)
(* tables.  A table is the bag of its rows, so that a second row for one   *)
(* key is representable.                                                   *)

\* computed_at: DEFAULT NOW() on insert, computed_at = NOW() on update.  The
\* stamp of a row is kept as the number of times the row has been written.
inserted(data) == [computed_at |-> 1] @@ data

updated(old, data) == [computed_at |-> old.computed_at + 1] @@ data

rowsOf(table) == BagToSet(table)

\* INSERT of one row
insertRow(table, row) == table (+) SetToBag({row})

RECURSIVE copiesOf(_, _)
copiesOf(table, S) ==
  IF S = {} THEN 0
  ELSE LET r == CHOOSE x \in S : TRUE IN table[r] + copiesOf(table, S \ {r})

\* DO UPDATE: every copy of a conflicting row r becomes image[r]
updateRows(table, conflict, image) ==
  LET kept == rowsOf(table) \ conflict
      moved == {image[r] : r \in conflict}
  IN [x \in kept \cup moved |->
        (IF x \in kept THEN table[x] ELSE 0)
        + copiesOf(table, {r \in conflict : image[r] = x})]

\* variant: plain INSERT, no ON CONFLICT clause
upsertParticipantAnalytics_insertOnly(table, data) == insertRow(table, inserted(data))

upsertParticipantAnalytics(table, data) ==
  LET conflict == {r \in rowsOf(table) :
                     r.match_participant_id = data.match_participant_id}
  IN IF conflict = {} THEN insertRow(table, inserted(data))
     ELSE updateRows(table, conflict, [r \in conflict |-> updated(r, data)])

\* variant: plain INSERT, no ON CONFLICT clause
upsertTimelineAnalytics_insertOnly(table, data) == insertRow(table, inserted(data))

upsertTimelineAnalytics(table, data) ==
  LET conflict == {r \in rowsOf(table) : r.match_id = data.match_id}
  IN IF conflict = {} THEN insertRow(table, inserted(data))
     ELSE updateRows(table, conflict, [r \in conflict |-> updated(r, data)])

COALESCE(x, sentinel) == IF IsNull(x) THEN sentinel ELSE Val(x)

\* variant: UNIQUE over the bare nullable columns, where a null never conflicts
rollingConflictKey_nullsDistinct(r) ==
  IF IsNull(r.champion_id) \/ IsNull(r.queue_id) \/ IsNull(r.team_position)
  THEN <<r>>
  ELSE <<r.player_profile_id, r.match_count, Val(r.champion_id), Val(r.queue_id),
         Val(r.team_position)>>

\* the expressions of idx_rolling_analytics_unique and of the ON CONFLICT target
rollingConflictKey(r) ==
  << r.player_profile_id, r.match_count, COALESCE(r.champion_id, -1),
     COALESCE(r.queue_id, -1), COALESCE(r.team_position, "") >>

\* DO UPDATE SET assigns every column but the five of the key
rollingUpdate(old, data) ==
  [ updated(old, data) EXCEPT !.player_profile_id = old.player_profile_id,
                              !.match_count = old.match_count,
                              !.champion_id = old.champion_id,
                              !.queue_id = old.queue_id,
                              !.team_position = old.team_position ]

upsertRollingAnalytics(table, data) ==
  LET conflict == {r \in rowsOf(table) :
                     rollingConflictKey(r) = rollingConflictKey(data)}
  IN IF conflict = {} THEN insertRow(table, inserted(data))
     ELSE updateRows(table, conflict, [r \in conflict |-> rollingUpdate(r, data)])

----------------------------------------------------------------------------
(* SilverAnalyticsService.computeRollingAnalytics                          *)

RECURSIVE byStartedAtDesc(_)
byStartedAtDesc(S) ==
  IF S = {} THEN <<>>
  ELSE LET m == CHOOSE x \in S : \A y \in S : Match[y].started_at <= Match[x].started_at
       IN <<m>> \o byStartedAtDesc(S \ {m})

\* SELECT m.id FROM match m JOIN match_participant mp ... WHERE <filters>
\* ORDER BY m.started_at DESC LIMIT matchCount; a falsy filter is not applied
matchIdsQuery(playerProfileId, matchCount, queueId, championId, teamPosition) ==
  LET hit == {p \in MatchParticipant :
                /\ p.player_profile_id = Some(playerProfileId)
                /\ (IsNull(queueId) \/ Match[p.match_id].queue_id = Val(queueId))
                /\ (IsNull(championId) \/ p.champion_id = Val(championId))
                /\ (IsNull(teamPosition) \/ p.team_position = Val(teamPosition))}
      ordered == byStartedAtDesc({p.match_id : p \in hit})
  IN SubSeq(ordered, 1, IF Len(ordered) < matchCount THEN Len(ordered) ELSE matchCount)

\* The averages statement selects aggregates FROM match_participant_analytics
\* mpa JOIN match_participant mp and ends in ORDER BY mp.match_id, a column
\* that is neither grouped nor aggregated; with a queue filter its WHERE
\* clause also names m.queue_id although no table m is in its FROM list.
\* PostgreSQL rejects the statement in both forms, so executeStatement
\* rejects and the call throws before any row is built.
avgQuery(table, playerProfileId, queueId, championId, teamPosition) ==
  [error |-> TRUE, row |-> Null]

\* outcome of one call: did it throw, and the rolling table it leaves
computeRollingAnalytics(rolling, table, storeOk, playerProfileId, matchCount, queueId, championId, teamPosition) ==
  IF ~storeOk THEN [threw |-> TRUE, rolling |-> rolling]
  ELSE
  LET matchIds == matchIdsQuery(playerProfileId, matchCount, queueId, championId, teamPosition)
      avg == avgQuery(table, playerProfileId, queueId, championId, teamPosition)
  IN IF matchIds = <<>> THEN [threw |-> FALSE, rolling |-> rolling]
     ELSE IF avg.error THEN [threw |-> TRUE, rolling |-> rolling]
     ELSE IF IsNull(avg.row) THEN [threw |-> FALSE, rolling |-> rolling]
     ELSE [threw |-> FALSE,
           rolling |-> upsertRollingAnalytics(rolling,
             [ player_profile_id |-> playerProfileId,
               match_count |-> matchCount,
               champion_id |-> championId,
               queue_id |-> queueId,
               team_position |-> teamPosition,
               avg_overall_performance |-> Val(avg.row).avg_overall,
               total_matches |-> Val(avg.row).total,
               economy_trend |-> Null,
               match_ids |-> matchIds ])]

----------------------------------------------------------------------------
(* The SQS queue and the handler of computeSilverAnalytics.                *)

\* store errors a run may inject
MaxFaults == 1

\* records per lambda invocation
BatchMax == 2

\* messages published to the queue in one run
MaxMessages == 2

\* redrive policy of silver-analytics-queue: maximum receives
MaxReceive == 3

Workers == {"w1", "w2"}

\* lambda instances are interchangeable: the first idle one takes the batch
WorkerRank == [w1 |-> 1, w2 |-> 2]

\* record.body of each message: m1 and m2 notify the same match, m4 is not
\* ranked, the body of m5 is not JSON
Body ==
  [ m1 |-> [json |-> TRUE,  matchId |-> "M1", queueId |-> Some(420)],
    m2 |-> [json |-> TRUE,  matchId |-> "M1", queueId |-> Some(420)],
    m3 |-> [json |-> TRUE,  matchId |-> "M2", queueId |-> Some(440)],
    m4 |-> [json |-> TRUE,  matchId |-> "M3", queueId |-> Some(400)],
    m5 |-> [json |-> FALSE, matchId |-> "",   queueId |-> Null],
    m6 |-> [json |-> TRUE,  matchId |-> "M4", queueId |-> Some(420)],
    m7 |-> [json |-> TRUE,  matchId |-> "M1", queueId |-> Null],
    m8 |-> [json |-> TRUE,  matchId |-> "M6", queueId |-> Some(420)] ]

MessageIds == DOMAIN Body

\* variant: normal games (queue 400) let through the filter
RANKED_QUEUE_IDS_withNormal == {400, 420, 440}

RANKED_QUEUE_IDS == {420, 440}

\* !RANKED_QUEUE_IDS.includes(matchEvent.queueId)
isRanked(queueId) == ~IsNull(queueId) /\ Val(queueId) \in RANKED_QUEUE_IDS

\* dedup guard: do participant analytics exist for the match
checkIfAnalyticsExist(table, matchId) ==
  \E r \in rowsOf(table) : r.match_id = matchId

\* variant: the dedup result is ignored
skipDuplicate_never(alreadyComputed) == FALSE

\* if (alreadyComputed) continue
skipDuplicate(alreadyComputed) == alreadyComputed

\* variant: a catch block that only logs
catchBlock_logOnly(batchItemFailures, messageId) == batchItemFailures

\* catch of the handler's loop body: batchItemFailures.push({itemIdentifier})
catchBlock(batchItemFailures, messageId) ==
  Append(batchItemFailures, [itemIdentifier |-> messageId])

\* variant: a match without participant records is an error
noParticipants_throw(records) == IF records = {} THEN "throw" ELSE "continue"

\* computeParticipantAnalytics: without participant records, warn and return
noParticipants(records) == IF records = {} THEN "return" ELSE "continue"

\* variant: no inner try/catch around a player's recomputation
rollingCatch_rethrow(threw) == "rethrow"

\* catch around one player's rolling calls: log, go on with the next player
rollingCatch(threw) == "continue"

\* SELECT DISTINCT player_profile_id ... AND player_profile_id IS NOT NULL
playersOf(matchId) ==
  {Val(p.player_profile_id) : p \in {q \in participantsOf(matchId) : ~IsNull(q.player_profile_id)}}

NoCur ==
  [ calls |-> {}, wrote |-> {}, dedup |-> "none", existed |-> FALSE, raced |-> FALSE,
    attempted |-> {}, rollThrew |-> {} ]

IdleWorker ==
  [ pc |-> "idle", batch |-> <<>>, idx |-> 0, parts |-> {}, players |-> {},
    batchItemFailures |-> <<>>, cur |-> NoCur, recs |-> <<>> ]

msgOf(s) == s.batch[s.idx]

matchOf(s) == Body[msgOf(s)].matchId

OkChoices == IF faults < MaxFaults THEN {TRUE, FALSE} ELSE {TRUE}

\* sequences of 1..BatchMax distinct visible messages
RECURSIVE batchesOf(_, _)
batchesOf(S, n) ==
  IF n = 0 THEN {<<>>}
  ELSE {<<>>} \cup UNION {{<<m>> \o b : b \in batchesOf(S \ {m}, n - 1)} : m \in S}

\* a row without its computed_at stamp
unstamped(r) == [f \in DOMAIN r \ {"computed_at"} |-> r[f]]

\* rows of one match in a table: their values without the stamp, their number
matchRows(table, matchId) ==
  LET rows == {r \in rowsOf(table) : r.match_id = matchId} IN
  [ values |-> {unstamped(r) : r \in rows},
    count |-> BagCardinality([r \in rows |-> table[r]]) ]

silverRowsOf(pa, tl, matchId) ==
  [ participants |-> matchRows(pa, matchId), timeline |-> matchRows(tl, matchId) ]

\* the record of the batch ends: with `threw` the catch block runs; a record
\* gets DONE only in steps that leave the participant and timeline tables alone
EndRecord(w, cur, outcome, threw) ==
  LET s == wk[w]
      summary == [msg |-> msgOf(s), outcome |-> outcome, threw |-> threw,
                  retry |-> msgOf(s) \in partial] @@ cur
  IN /\ wk' = [wk EXCEPT ![w] =
                 [ s EXCEPT !.batchItemFailures =
                              IF threw THEN catchBlock(@, msgOf(s)) ELSE @,
                            !.recs = Append(@, summary),
                            !.idx = @ + 1,
                            !.pc = IF s.idx = Len(s.batch) THEN "return" ELSE "parse",
                            !.parts = {},
                            !.players = {},
                            !.cur = NoCur ]]
     /\ partial' = IF threw /\ cur.wrote # {} THEN partial \cup {msgOf(s)} ELSE partial
     /\ snap' = IF outcome = "DONE" /\ IsNull(snap[matchOf(s)])
                THEN [snap EXCEPT ![matchOf(s)] =
                        Some([rows |-> silverRowsOf(participantAnalytics,
                                              timelineAnalytics, matchOf(s))])]
                ELSE snap

Step(w, s) ==
  /\ wk' = [wk EXCEPT ![w] = s]
  /\ UNCHANGED <<partial, snap>>

\* the lambda is invoked with a batch of visible messages
Receive(w) ==
  /\ wk[w].pc = "idle"
  /\ \A v \in Workers : WorkerRank[v] < WorkerRank[w] => wk[v].pc # "idle"
  /\ \E b \in batchesOf(visible, BatchMax) \ {<<>>} :
       /\ visible' = visible \ Range(b)
       /\ receives' = [m \in MessageIds |-> IF m \in Range(b) THEN receives[m] + 1 ELSE receives[m]]
       /\ wk' = [wk EXCEPT ![w] = [IdleWorker EXCEPT !.pc = "parse", !.batch = b, !.idx = 1]]
  /\ UNCHANGED <<participantAnalytics, timelineAnalytics, rollingAnalytics, faults,
                 dlq, snap, partial, sc, ops>>

\* JSON.parse(record.body) and the ranked filter
ParseFilter(w) ==
  LET s == wk[w]
      body == Body[msgOf(s)]
  IN /\ s.pc = "parse"
     /\ IF ~body.json THEN EndRecord(w, s.cur, "FAILED", TRUE)
        ELSE IF ~isRanked(body.queueId) THEN EndRecord(w, s.cur, "SKIPPED_QUEUE", FALSE)
        ELSE Step(w, [s EXCEPT !.pc = "dedup"])
     /\ UNCHANGED <<participantAnalytics, timelineAnalytics, rollingAnalytics, faults,
                    visible, receives, dlq, sc, ops>>

\* has another worker passed the dedup check for the match without a row yet
racing(w, matchId) ==
  /\ ~checkIfAnalyticsExist(participantAnalytics, matchId)
  /\ \E v \in Workers \ {w} :
        /\ wk[v].pc \in {"participant", "timeline"}
        /\ matchOf(wk[v]) = matchId

\* service.checkIfAnalyticsExist(matchEvent.matchId) and the skip of a duplicate
Dedup(w) ==
  LET s == wk[w]
      existed == \E r \in BagToSet(participantAnalytics) : r.match_id = matchOf(s)
      cur(d) == [s.cur EXCEPT !.calls = @ \cup {"checkIfAnalyticsExist"},
                              !.dedup = d, !.existed = existed,
                              !.raced = racing(w, matchOf(s))]
  IN /\ s.pc = "dedup"
     /\ \E ok \in OkChoices :
          IF ~ok
          THEN /\ faults' = faults + 1
               /\ EndRecord(w, cur("threw"), "FAILED", TRUE)
          ELSE /\ faults' = faults
               /\ IF skipDuplicate(checkIfAnalyticsExist(participantAnalytics, matchOf(s)))
                  THEN EndRecord(w, cur("true"), "SKIPPED_DUP", FALSE)
                  ELSE Step(w, [s EXCEPT !.cur = cur("false"),
                                         !.parts = {p.id : p \in participantsOf(matchOf(s))},
                                         !.pc = "participant"])
     /\ UNCHANGED <<participantAnalytics, timelineAnalytics, rollingAnalytics,
                    visible, receives, dlq, sc, ops>>

\* computeParticipantAnalytics: one turn of the loop over the participants
\* (its reads, the scores, the upsert); the rows come back in no fixed order
Participant(w) ==
  LET s == wk[w]
      cur == [s.cur EXCEPT !.calls = @ \cup {"computeParticipantAnalytics"}]
  IN /\ s.pc = "participant"
     /\ \E p \in IF s.parts = {} THEN {Null}
                  ELSE {q \in MatchParticipant : q.id \in s.parts}, ok \in OkChoices :
          IF ~ok
          THEN /\ faults' = faults + 1
               /\ UNCHANGED participantAnalytics
               /\ EndRecord(w, cur, "FAILED", TRUE)
          ELSE IF noParticipants(s.parts) # "continue"
          THEN /\ faults' = faults
               /\ UNCHANGED participantAnalytics
               /\ IF noParticipants(s.parts) = "throw"
                  THEN EndRecord(w, cur, "FAILED", TRUE)
                  ELSE Step(w, [s EXCEPT !.cur = cur, !.pc = "timeline"])
          ELSE /\ faults' = faults
               /\ participantAnalytics' =
                    upsertParticipantAnalytics(participantAnalytics,
                                               participantAnalyticsData(p))
               /\ Step(w, [s EXCEPT !.cur = [cur EXCEPT !.wrote = @ \cup {"participant"}],
                                    !.parts = @ \ {p.id},
                                    !.pc = IF s.parts = {p.id} THEN "timeline" ELSE "participant"])
     /\ UNCHANGED <<timelineAnalytics, rollingAnalytics, visible, receives, dlq, sc, ops>>

\* variant: a failure of computeTimelineAnalytics is swallowed and the
\* handler goes on to the rolling step
Timeline_swallow(w) ==
  LET s == wk[w]
      cur == [s.cur EXCEPT !.calls = @ \cup {"computeTimelineAnalytics"}]
  IN /\ s.pc = "timeline"
     /\ \E ok \in OkChoices :
          IF ~ok
          THEN /\ faults' = faults + 1
               /\ UNCHANGED timelineAnalytics
               /\ Step(w, [s EXCEPT !.cur = cur, !.pc = "players"])
          ELSE /\ faults' = faults
               /\ timelineAnalytics' =
                    upsertTimelineAnalytics(timelineAnalytics,
                                            timelineAnalyticsData(matchOf(s)))
               /\ Step(w, [s EXCEPT !.cur = [cur EXCEPT !.wrote = @ \cup {"timeline"}],
                                    !.pc = "players"])
     /\ UNCHANGED <<participantAnalytics, rollingAnalytics, visible, receives, dlq, sc, ops>>

\* computeTimelineAnalytics: its reads and the upsert
Timeline(w) ==
  LET s == wk[w]
      cur == [s.cur EXCEPT !.calls = @ \cup {"computeTimelineAnalytics"}]
  IN /\ s.pc = "timeline"
     /\ \E ok \in OkChoices :
          IF ~ok
          THEN /\ faults' = faults + 1
               /\ UNCHANGED timelineAnalytics
               /\ EndRecord(w, cur, "FAILED", TRUE)
          ELSE /\ faults' = faults
               /\ timelineAnalytics' =
                    upsertTimelineAnalytics(timelineAnalytics,
                                            timelineAnalyticsData(matchOf(s)))
               /\ Step(w, [s EXCEPT !.cur = [cur EXCEPT !.wrote = @ \cup {"timeline"}],
                                    !.pc = "players"])
     /\ UNCHANGED <<participantAnalytics, rollingAnalytics, visible, receives, dlq, sc, ops>>

\* computeRollingAnalyticsForMatch: the players query, outside the inner try
Players(w) ==
  LET s == wk[w]
      cur == [s.cur EXCEPT !.calls = @ \cup {"computeRollingAnalyticsForMatch"}]
  IN /\ s.pc = "players"
     /\ \E ok \in OkChoices :
          IF ~ok
          THEN /\ faults' = faults + 1
               /\ EndRecord(w, cur, "FAILED", TRUE)
          ELSE /\ faults' = faults
               /\ IF playersOf(matchOf(s)) = {}
                  THEN EndRecord(w, cur, "DONE", FALSE)
                  ELSE Step(w, [s EXCEPT !.cur = cur, !.players = playersOf(matchOf(s)),
                                         !.pc = "rolling"])
     /\ UNCHANGED <<participantAnalytics, timelineAnalytics, rollingAnalytics,
                    visible, receives, dlq, sc, ops>>

\* computeRollingAnalyticsForMatch: one player, the calls for queue 420 and
\* queue 440 inside one try
Rolling(w) ==
  LET s == wk[w] IN
  /\ s.pc = "rolling"
  /\ \E p \in s.players, ok \in OkChoices :
       LET r420 == computeRollingAnalytics(rollingAnalytics, participantAnalytics, ok,
                                           p, 20, Some(420), Null, Null)
           r440 == computeRollingAnalytics(r420.rolling, participantAnalytics, TRUE,
                                           p, 20, Some(440), Null, Null)
           r == IF r420.threw THEN r420 ELSE r440
           cur == [s.cur EXCEPT !.calls = @ \cup {"computeRollingAnalytics"},
                                !.attempted = @ \cup {p},
                                !.rollThrew = IF r.threw THEN @ \cup {p} ELSE @,
                                !.wrote = IF r.rolling # rollingAnalytics
                                          THEN @ \cup {"rolling"} ELSE @]
       IN /\ faults' = IF ok THEN faults ELSE faults + 1
          /\ rollingAnalytics' = r.rolling
          /\ IF r.threw /\ rollingCatch(r.threw) # "continue"
             THEN EndRecord(w, cur, "FAILED", TRUE)
             ELSE IF s.players = {p}
             THEN EndRecord(w, cur, "DONE", FALSE)
             ELSE Step(w, [s EXCEPT !.cur = cur, !.players = @ \ {p}])
  /\ UNCHANGED <<participantAnalytics, timelineAnalytics, visible, receives, dlq, sc, ops>>

\* the handler returns { batchItemFailures }: SQS deletes the other messages
\* and redelivers the reported ones, up to MaxReceive receives
Return(w) ==
  LET s == wk[w]
      failed == {s.batchItemFailures[i].itemIdentifier : i \in 1..Len(s.batchItemFailures)}
  IN /\ s.pc = "return"
     /\ visible' = visible \cup {m \in failed : receives[m] < MaxReceive}
     /\ dlq' = dlq \cup {m \in failed : receives[m] >= MaxReceive}
     /\ wk' = [wk EXCEPT ![w] = IdleWorker]
     /\ UNCHANGED <<participantAnalytics, timelineAnalytics, rollingAnalytics, faults,
                    receives, snap, partial, sc, ops>>

NoScore == [phase |-> "none"]

NoOps == [n |-> 0, call |-> Null]

\* notifications of the main runs: two for one ranked match, one for a second
\* ranked match, one for a normal game (the irregular ones run under SpecEdge)
MainMessages == {"m1", "m2", "m3", "m4"}

Init ==
  /\ participantAnalytics = EmptyBag
  /\ timelineAnalytics = EmptyBag
  /\ rollingAnalytics = EmptyBag
  /\ faults = 0
  /\ visible \in {S \in SUBSET MainMessages : S # {} /\ Cardinality(S) <= MaxMessages}
  /\ receives = [m \in MessageIds |-> 0]
  /\ dlq = {}
  /\ wk = [w \in Workers |-> IdleWorker]
  /\ snap = [m \in MatchIds |-> Null]
  /\ partial = {}
  /\ sc = NoScore
  /\ ops = NoOps

Next ==
  \E w \in Workers :
    \/ Receive(w)
    \/ ParseFilter(w)
    \/ Dedup(w)
    \/ Participant(w)
    \/ Timeline(w)
    \/ Players(w)
    \/ Rolling(w)
    \/ Return(w)

Spec == Init /\ [][Next]_vars

\* runs with the irregular notifications: one that is not JSON, one for a
\* match of negative duration, one without queueId, one for a match without
\* participant records, next to a regular one
EdgeMessages == {"m1", "m5", "m6", "m7", "m8"}

InitEdge ==
  /\ participantAnalytics = EmptyBag
  /\ timelineAnalytics = EmptyBag
  /\ rollingAnalytics = EmptyBag
  /\ faults = 0
  /\ visible \in {S \in SUBSET EdgeMessages : S # {} /\ Cardinality(S) <= MaxMessages}
  /\ receives = [m \in MessageIds |-> 0]
  /\ dlq = {}
  /\ wk = [w \in Workers |-> IdleWorker]
  /\ snap = [m \in MatchIds |-> Null]
  /\ partial = {}
  /\ sc = NoScore
  /\ ops = NoOps

SpecEdge == InitEdge /\ [][Next]_vars

----------------------------------------------------------------------------
(* The score engine on its own: computeParticipantAnalytics applied to one *)
(* participant's raw stats.                                                *)

GoldEarned == {0, 5000, 15653, 30000}

DurationSeconds == {900, 2110}

Deaths == {0, 3, 12}

VisionScore == {0, 42, 100}

ScoreInputs ==
  [ goldEarned : GoldEarned, visionScore : VisionScore, deaths : Deaths,
    durationSeconds : DurationSeconds, baron : {0, 1}, dragon : {0, 2},
    tower : {0, 3}, teamTotal : {0, 3, 8} ]

quietPipeline ==
  /\ participantAnalytics = EmptyBag
  /\ timelineAnalytics = EmptyBag
  /\ faults = 0
  /\ visible = {}
  /\ receives = [m \in MessageIds |-> 0]
  /\ dlq = {}
  /\ wk = [w \in Workers |-> IdleWorker]
  /\ snap = [m \in MatchIds |-> Null]
  /\ partial = {}

InitScore ==
  /\ quietPipeline
  /\ rollingAnalytics = EmptyBag
  /\ ops = NoOps
  /\ \E i \in ScoreInputs : sc = [phase |-> "input", in |-> i]

ComputeScores ==
  /\ sc.phase = "input"
  /\ sc' = [ phase |-> "scored", in |-> sc.in,
             out |-> compositeScores(sc.in.goldEarned, sc.in.visionScore, sc.in.deaths,
                                     sc.in.durationSeconds, sc.in.baron, sc.in.dragon,
                                     sc.in.tower, sc.in.teamTotal) ]
  /\ UNCHANGED <<pipelineVars, rollingAnalytics, ops>>

NextScore == ComputeScores

SpecScore == InitScore /\ [][NextScore]_vars

----------------------------------------------------------------------------
(* computeOverallScore on its own, over every pattern of missing scores.   *)

CategoryScores == {Null, Some(0), Some(431), Some(597), Some(1000)}

OverallInputs ==
  [ economyScore : CategoryScores, objectivesScore : CategoryScores,
    mapControlScore : CategoryScores, errorRateScore : CategoryScores ]

InitOverall ==
  /\ quietPipeline
  /\ rollingAnalytics = EmptyBag
  /\ ops = NoOps
  /\ \E i \in OverallInputs : sc = [phase |-> "scores", in |-> i]

ComputeOverall ==
  /\ sc.phase = "scores"
  /\ sc' = [ phase |-> "overall", in |-> sc.in,
             out |-> computeOverallScore(sc.in.economyScore, sc.in.objectivesScore,
                                         sc.in.mapControlScore, sc.in.errorRateScore) ]
  /\ UNCHANGED <<pipelineVars, rollingAnalytics, ops>>

NextOverall == ComputeOverall

SpecOverall == InitOverall /\ [][NextOverall]_vars

----------------------------------------------------------------------------
(* Challenge-sourced fields of computeEconomyMetrics and                   *)
(* computeMapControlMetrics.  The challenges column holds a JSON object or *)
(* nothing; a coverage is a fraction, kept as <<numerator, denominator>>.  *)

ChallengeValues ==
  [ earlyLaningPhaseGoldExpAdvantage |-> {-2, 0, 5},
    bountyGold |-> {0, 250},
    stealthWardsPlaced |-> {0, 12},
    controlWardTimeCoverageInRiver |-> {<<0, 100>>, <<35, 100>>} ]

ChallengeKeys == DOMAIN ChallengeValues

\* every object with some of the keys, each with one of its values
ChallengeMaps ==
  LET optional(k) == {Null} \cup {Some(v) : v \in ChallengeValues[k]}
      choices == [ earlyLaningPhaseGoldExpAdvantage : optional("earlyLaningPhaseGoldExpAdvantage"),
                   bountyGold : optional("bountyGold"),
                   stealthWardsPlaced : optional("stealthWardsPlaced"),
                   controlWardTimeCoverageInRiver : optional("controlWardTimeCoverageInRiver") ]
  IN {[k \in {x \in ChallengeKeys : ~IsNull(o[x])} |-> Val(o[k])] : o \in choices}

\* challengesJson ? JSON.parse(challengesJson) : {}
parseChallenges(challengesJson) ==
  IF IsNull(challengesJson) THEN <<>> ELSE Val(challengesJson)

\* challenges?.key: the value, or undefined (null here) when the key is not there
challengeValue(challenges, key) ==
  IF key \in DOMAIN challenges THEN Some(challenges[key]) ELSE Null

\* x || null: every falsy x, 0 included, becomes null
orNull(x) == IF IsNull(x) \/ Val(x) = 0 THEN Null ELSE x

\* c ? c * 100 : null
coveragePercent(x) ==
  IF IsNull(x) \/ Val(x)[1] = 0 THEN Null ELSE Some(<<Val(x)[1] * 100, Val(x)[2]>>)

challengeFields(challengesJson) ==
  LET challenges == parseChallenges(challengesJson) IN
  [ early_laning_gold_exp_advantage |->
      orNull(challengeValue(challenges, "earlyLaningPhaseGoldExpAdvantage")),
    bounty_gold |-> orNull(challengeValue(challenges, "bountyGold")),
    stealth_wards_placed |-> orNull(challengeValue(challenges, "stealthWardsPlaced")),
    control_ward_uptime_percent |->
      coveragePercent(challengeValue(challenges, "controlWardTimeCoverageInRiver")) ]

InitChallenges ==
  /\ quietPipeline
  /\ rollingAnalytics = EmptyBag
  /\ ops = NoOps
  /\ \E c \in {Null} \cup {Some(f) : f \in ChallengeMaps} :
       sc = [phase |-> "challenges", in |-> c]

ComputeChallengeFields ==
  /\ sc.phase = "challenges"
  /\ sc' = [phase |-> "fields", in |-> sc.in, out |-> challengeFields(sc.in)]
  /\ UNCHANGED <<pipelineVars, rollingAnalytics, ops>>

NextChallenges == ComputeChallengeFields

SpecChallenges == InitChallenges /\ [][NextChallenges]_vars

----------------------------------------------------------------------------
(* calculate_trend of the silver schema, on DECIMAL averages kept in       *)
(* hundredths; an argument may be SQL NULL.                                *)

\* variant: a difference equal to the threshold already counts
calculate_trend_inclusive(first_half_avg, second_half_avg, threshold) ==
  IF IsNull(first_half_avg) \/ IsNull(second_half_avg) THEN "stable"
  ELSE IF Val(second_half_avg) - Val(first_half_avg) >= threshold THEN "improving"
  ELSE IF Val(first_half_avg) - Val(second_half_avg) >= threshold THEN "declining"
  ELSE "stable"

\* a comparison with NULL is not true, so both IF tests fail
calculate_trend(first_half_avg, second_half_avg, threshold) ==
  IF IsNull(first_half_avg) \/ IsNull(second_half_avg) THEN "stable"
  ELSE IF Val(second_half_avg) - Val(first_half_avg) > threshold THEN "improving"
  ELSE IF Val(first_half_avg) - Val(second_half_avg) > threshold THEN "declining"
  ELSE "stable"

HalfAverages == {Null, Some(0), Some(6500), Some(7000), Some(7499), Some(7500), Some(7501), Some(10000)}

InitTrend ==
  /\ quietPipeline
  /\ rollingAnalytics = EmptyBag
  /\ ops = NoOps
  /\ \E f \in HalfAverages, g \in HalfAverages, t \in {300, 500} :
       sc = [phase |-> "halves", first_half_avg |-> f, second_half_avg |-> g, threshold |-> t]

CalculateTrend ==
  /\ sc.phase = "halves"
  /\ sc' = [ sc EXCEPT !.phase = "trend" ] @@
           [ out |-> calculate_trend(sc.first_half_avg, sc.second_half_avg, sc.threshold) ]
  /\ UNCHANGED <<pipelineVars, rollingAnalytics, ops>>

NextTrend == CalculateTrend

SpecTrend == InitTrend /\ [][NextTrend]_vars

\* direct calls of the rolling functions in one run
MaxOps == 3

----------------------------------------------------------------------------
(* computeRollingAnalytics on its own, called after the participant rows   *)
(* of some ranked matches have been written.                               *)

RECURSIVE writeAll(_, _)
writeAll(table, S) ==
  IF S = {} THEN table
  ELSE LET p == CHOOSE x \in S : TRUE
       IN writeAll(upsertParticipantAnalytics(table, participantAnalyticsData(p)), S \ {p})

InitRolling ==
  /\ timelineAnalytics = EmptyBag
  /\ faults = 0
  /\ visible = {}
  /\ receives = [m \in MessageIds |-> 0]
  /\ dlq = {}
  /\ wk = [w \in Workers |-> IdleWorker]
  /\ snap = [m \in MatchIds |-> Null]
  /\ partial = {}
  /\ rollingAnalytics = EmptyBag
  /\ ops = NoOps
  /\ sc = NoScore
  /\ \E done \in SUBSET {"M1", "M2", "M5"} :
       participantAnalytics =
         writeAll(EmptyBag, {p \in MatchParticipant : p.match_id \in done})

ComputeRolling ==
  /\ ops.n < MaxOps
  /\ \E player \in {"P1", "P2"}, matchCount \in {1, 20}, queueId \in {Null, Some(420), Some(440)} :
       LET res == computeRollingAnalytics(rollingAnalytics, participantAnalytics, TRUE,
                                          player, matchCount, queueId, Null, Null)
       IN /\ rollingAnalytics' = res.rolling
          /\ ops' = [ n |-> ops.n + 1,
                      call |-> Some([ player_profile_id |-> player, match_count |-> matchCount,
                                      queue_id |-> queueId, threw |-> res.threw ]) ]
  /\ UNCHANGED <<pipelineVars, sc>>

NextRolling == ComputeRolling

SpecRolling == InitRolling /\ [][NextRolling]_vars

----------------------------------------------------------------------------
(* The rolling table on its own: calls of upsertRollingAnalytics with the  *)
(* keys computeRollingAnalytics can build (a falsy filter is stored null). *)

RollingInputs ==
  [ player_profile_id : {"P1", "P2"},
    match_count : {20},
    champion_id : {Null, Some(36)},
    queue_id : {Null, Some(420)},
    team_position : {Null, Some("TOP")},
    avg_overall_performance : {Some(<<500, 1>>), Some(<<1100, 2>>)},
    total_matches : {1},
    economy_trend : {Null},
    match_ids : {<<"M1">>} ]

InitRepo ==
  /\ quietPipeline
  /\ rollingAnalytics = EmptyBag
  /\ ops = NoOps
  /\ sc = NoScore

UpsertRolling ==
  /\ ops.n < MaxOps
  /\ \E data \in RollingInputs :
       /\ rollingAnalytics' = upsertRollingAnalytics(rollingAnalytics, data)
       /\ ops' = [n |-> ops.n + 1, call |-> Some(data)]
  /\ UNCHANGED <<pipelineVars, sc>>

NextRepo == UpsertRolling

SpecRepo == InitRepo /\ [][NextRepo]_vars

----------------------------------------------------------------------------
(* Properties of the handler and of the silver tables                      *)

failedIds(w) ==
  {wk[w].batchItemFailures[i].itemIdentifier : i \in 1..Len(wk[w].batchItemFailures)}

finished(w) == Range(wk[w].recs)

inFlight(w) == wk[w].pc \in {"parse", "dedup", "participant", "timeline", "players", "rolling"}

notRanked(msg) ==
  /\ Body[msg].json
  /\ Body[msg].queueId # Some(420)
  /\ Body[msg].queueId # Some(440)

complete(matchId) ==
  /\ \A p \in participantsOf(matchId) :
       \E r \in rowsOf(participantAnalytics) : r.match_participant_id = p.id
  /\ \E r \in rowsOf(timelineAnalytics) : r.match_id = matchId

\* C1: a record whose queueId is neither 420 nor 440 is acknowledged without
\* any work: no dedup check, no computation, no silver write, and its
\* messageId is not in batchItemFailures.
C1_NonRankedSkipped ==
  \A w \in Workers :
    /\ \A r \in finished(w) :
         notRanked(r.msg) =>
           /\ r.calls = {}
           /\ r.wrote = {}
           /\ r.outcome = "SKIPPED_QUEUE"
           /\ r.msg \notin failedIds(w)
    /\ (inFlight(w) /\ notRanked(msgOf(wk[w]))) =>
         /\ wk[w].pc = "parse"
         /\ wk[w].cur.calls = {}
         /\ wk[w].cur.wrote = {}

C1_Witness ==
  \E w \in Workers :
    /\ wk[w].pc = "return"
    /\ \E r \in finished(w) : notRanked(r.msg) /\ r.outcome = "SKIPPED_QUEUE"

\* C2: when participant analytics already exist for the match at the dedup
\* check, the handler calls no compute step and writes nothing for that
\* record, and, the check having returned, the record is skipped and its
\* messageId is not in batchItemFailures.
C2_DuplicateSkipped ==
  \A w \in Workers :
    /\ ~wk[w].cur.existed
    /\ \A r \in finished(w) :
         r.existed =>
           /\ r.calls = {"checkIfAnalyticsExist"}
           /\ r.wrote = {}
           /\ r.dedup # "threw" =>
                /\ r.outcome = "SKIPPED_DUP"
                /\ r.msg \notin failedIds(w)

C2_Witness ==
  \E w \in Workers :
    /\ wk[w].pc = "return"
    /\ \E r \in finished(w) :
         r.existed /\ r.outcome = "SKIPPED_DUP" /\ r.msg \notin failedIds(w)

\* C3: batchItemFailures holds the messageId of exactly the records whose
\* processing threw, each once; every record of the batch is processed, in
\* order, whatever happened to the records before it; a skipped or completed
\* record is never reported.
C3_BatchReport ==
  \A w \in Workers :
    LET f == wk[w].batchItemFailures IN
    /\ \A i, j \in 1..Len(f) : f[i].itemIdentifier = f[j].itemIdentifier => i = j
    /\ failedIds(w) = {r.msg : r \in {x \in finished(w) : x.threw}}
    /\ \A r \in finished(w) :
         r.outcome \in {"SKIPPED_QUEUE", "SKIPPED_DUP", "DONE"} => r.msg \notin failedIds(w)
    /\ wk[w].pc = "return" =>
         /\ Len(wk[w].recs) = Len(wk[w].batch)
         /\ \A i \in 1..Len(wk[w].batch) : wk[w].recs[i].msg = wk[w].batch[i]

C3_Witness ==
  \E w \in Workers :
    /\ wk[w].pc = "return"
    /\ Len(wk[w].recs) = 2
    /\ wk[w].recs[1].threw
    /\ wk[w].recs[2].outcome = "DONE"
    /\ failedIds(w) = {wk[w].recs[1].msg}

\* C4: when rolling recomputation throws for a player of the match, the
\* handler has attempted it for every player of the match by the end of the
\* record, and the record is not reported in batchItemFailures.
C4_RollingFailureIsPerPlayer ==
  \A w \in Workers :
    \A r \in finished(w) :
      r.rollThrew # {} =>
        /\ r.attempted = playersOf(Body[r.msg].matchId)
        /\ r.outcome = "DONE"
        /\ r.msg \notin failedIds(w)

C4_Witness ==
  \E w \in Workers :
    \E r \in finished(w) :
      /\ r.rollThrew # {}
      /\ Cardinality(r.attempted) >= 2
      /\ r.outcome = "DONE"

\* C5: once a match has been processed to DONE, processing its notification
\* again leaves the same participant and timeline rows with the same values
\* (the computed_at stamp apart) and the same number of rows.
C5_ReprocessingIsIdempotent ==
  \A m \in MatchIds :
    ~IsNull(snap[m]) =>
      silverRowsOf(participantAnalytics, timelineAnalytics, m) = Val(snap[m]).rows

C5_Witness ==
  \E m \in MatchIds :
    /\ ~IsNull(snap[m])
    /\ \A r \in rowsOf(participantAnalytics) : r.match_id = m => r.computed_at >= 2
    /\ \A r \in rowsOf(timelineAnalytics) : r.match_id = m => r.computed_at >= 2
    /\ \E v, w \in Workers :
         /\ v # w
         /\ \E r \in finished(v) : r.outcome = "DONE" /\ Body[r.msg].matchId = m
         /\ \E r \in finished(w) : r.outcome = "DONE" /\ Body[r.msg].matchId = m

\* C6: no interleaving of workers leaves two participant rows for one
\* participant record or two timeline rows for one match; once a worker has
\* processed the match to DONE there is exactly one of each.
C6_OneRowPerKey ==
  /\ \A p \in MatchParticipant :
       copiesOf(participantAnalytics,
                {r \in rowsOf(participantAnalytics) : r.match_participant_id = p.id}) <= 1
  /\ \A m \in MatchIds :
       copiesOf(timelineAnalytics, {r \in rowsOf(timelineAnalytics) : r.match_id = m}) <= 1
  /\ \A w \in Workers :
       \A d \in finished(w) :
         d.outcome = "DONE" =>
           /\ \A p \in participantsOf(Body[d.msg].matchId) :
                copiesOf(participantAnalytics,
                         {r \in rowsOf(participantAnalytics) :
                            r.match_participant_id = p.id}) = 1
           /\ copiesOf(timelineAnalytics,
                       {r \in rowsOf(timelineAnalytics) :
                          r.match_id = Body[d.msg].matchId}) = 1

C6_Witness ==
  \E v, w \in Workers :
    /\ v # w
    /\ \E a \in finished(v), b \in finished(w) :
         /\ Body[a.msg].matchId = Body[b.msg].matchId
         /\ a.outcome = "DONE"
         /\ b.outcome = "DONE"
         /\ b.raced

\* C7: when a delivery of a ranked match's message failed after some silver
\* row of the match was written, a redelivery that meets no store error
\* leaves the match with a participant row for every participant record and
\* a timeline row.
C7_RetryCompletesMatch ==
  \A w \in Workers :
    \A r \in finished(w) :
      (r.retry /\ ~r.threw) => complete(Body[r.msg].matchId)

RECURSIVE sumOverall(_)
sumOverall(S) ==
  IF S = {} THEN 0
  ELSE LET r == CHOOSE x \in S : TRUE
       IN (IF IsNull(r.overall_performance_score) THEN 0
           ELSE Val(r.overall_performance_score)) + sumOverall(S \ {r})

quiescent == visible = {} /\ \A w \in Workers : wk[w].pc = "idle"

\* C8: once every message has been consumed, each player of a match that
\* was processed to DONE has, per ranked queue with such a match, a rolling
\* row that aggregates the participant rows persisted for the player.
C8_RollingMatchesPersistedRows ==
  quiescent =>
    \A p \in MatchParticipant :
      (~IsNull(p.player_profile_id) /\ ~IsNull(snap[p.match_id])) =>
        LET q == Match[p.match_id].queue_id
            rows == {r \in rowsOf(participantAnalytics) :
                       /\ r.player_profile_id = p.player_profile_id
                       /\ Match[r.match_id].queue_id = q}
        IN \E a \in rowsOf(rollingAnalytics) :
             /\ a.player_profile_id = Val(p.player_profile_id)
             /\ a.match_count = 20
             /\ a.queue_id = Some(q)
             /\ IsNull(a.champion_id)
             /\ IsNull(a.team_position)
             /\ a.total_matches = Cardinality(rows)
             /\ a.avg_overall_performance = Some(<<sumOverall(rows), Cardinality(rows)>>)

\* the key as the data model states it: the five columns, null being a value
rollingKey(r) ==
  <<r.player_profile_id, r.match_count, r.champion_id, r.queue_id, r.team_position>>

oneRowPerRollingKey ==
  \A r \in rowsOf(rollingAnalytics) :
    copiesOf(rollingAnalytics,
             {x \in rowsOf(rollingAnalytics) : rollingKey(x) = rollingKey(r)}) = 1

upsertReplacesOneKey ==
  ops'.n = ops.n + 1 =>
    LET data == Val(ops'.call)
        others == {r \in rowsOf(rollingAnalytics) : rollingKey(r) # rollingKey(data)}
        othersAfter == {r \in rowsOf(rollingAnalytics') : rollingKey(r) # rollingKey(data)}
        same == rowsOf(rollingAnalytics') \ othersAfter
    IN /\ othersAfter = others
       /\ \A r \in others : rollingAnalytics'[r] = rollingAnalytics[r]
       /\ copiesOf(rollingAnalytics', same) = 1
       /\ \A r \in same : unstamped(r) = data

\* C9: the rolling table never holds two rows with the same (player, window
\* size, champion filter, queue filter, position filter), a null filter
\* being one key value; an upsert leaves exactly one row for its key,
\* carrying the upserted values, and every row of another key as it was.
C9_RollingKeyUnique == [] oneRowPerRollingKey /\ [][upsertReplacesOneKey]_vars

C9_Witness ==
  /\ ops.n >= 3
  /\ \E a, b \in rowsOf(rollingAnalytics) :
       /\ rollingKey(a) # rollingKey(b)
       /\ IsNull(a.champion_id) /\ IsNull(a.team_position)
       /\ a.computed_at >= 2
       /\ unstamped(a) = Val(ops.call)
       /\ b.computed_at = 1

scoreFields ==
  {"economy_score", "objectives_score", "map_control_score", "error_rate_score",
   "overall_performance_score"}

\* C10: each of the five composite scores computed for a participant is
\* null or lies in [0, 100] (0..1000 tenths), whatever the stats, the
\* duration, the objective participation counts and the team total.
C10_ScoresInRange ==
  sc.phase = "scored" =>
    \A f \in scoreFields :
      IsNull(sc.out[f]) \/ (0 <= Val(sc.out[f]) /\ Val(sc.out[f]) <= 1000)

categoryWeight == [economyScore |-> 30, objectivesScore |-> 25, mapControlScore |-> 20, errorRateScore |-> 25]

categories == DOMAIN categoryWeight

present(in) == {c \in categories : ~IsNull(in[c])}

RECURSIVE weightOf(_)
weightOf(S) ==
  IF S = {} THEN 0
  ELSE LET c == CHOOSE x \in S : TRUE IN categoryWeight[c] + weightOf(S \ {c})

RECURSIVE weightedScores(_, _)
weightedScores(in, S) ==
  IF S = {} THEN 0
  ELSE LET c == CHOOSE x \in S : TRUE
       IN categoryWeight[c] * Val(in[c]) + weightedScores(in, S \ {c})

\* C11: with exactly one category score null, the overall score is the sum of
\* weight x score over the three others divided by the sum of their weights
\* (weights 0.30, 0.25, 0.20, 0.25), as the one-decimal number nearest to it.
C11_RenormalisedOverall ==
  (sc.phase = "overall" /\ Cardinality(present(sc.in)) = 3) =>
    LET W == weightOf(present(sc.in))
        total == weightedScores(sc.in, present(sc.in))
    IN /\ ~IsNull(sc.out)
       /\ 2 * (Val(sc.out) * W - total) <= W
       /\ 2 * (total - Val(sc.out) * W) <= W

C11_Witness ==
  /\ sc.phase = "overall"
  /\ IsNull(sc.in.economyScore)
  /\ sc.in.objectivesScore = Some(1000)
  /\ sc.in.mapControlScore = Some(597)
  /\ sc.in.errorRateScore = Some(431)
  /\ sc.out = Some(682)

\* C12: the overall score is null exactly when all four category scores are
\* null.
C12_OverallNullIffAllNull ==
  sc.phase = "overall" => (IsNull(sc.out) <=> present(sc.in) = {})

C12_Witness ==
  /\ sc.phase = "overall"
  /\ present(sc.in) = {}
  /\ IsNull(sc.out)

\* C13: gold per minute, vision score per minute and deaths per minute are
\* numbers for every participant of a match of positive duration, 0 included,
\* so the economy, map-control and error-rate scores are numbers; the
\* objectives score is a number whenever the participation rate is one.
C13_NumberMetricGivesNumberScore ==
  (sc.phase = "scored" /\ sc.in.durationSeconds > 0) =>
    /\ ~IsNull(sc.out.economy_score)
    /\ ~IsNull(sc.out.map_control_score)
    /\ ~IsNull(sc.out.error_rate_score)
    /\ ~IsNull(objectiveParticipationRate(sc.in.baron, sc.in.dragon, sc.in.tower,
                                          sc.in.teamTotal))
         => ~IsNull(sc.out.objectives_score)

\* the challenge key each analytics field is read from
challengeSource ==
  [ early_laning_gold_exp_advantage |-> "earlyLaningPhaseGoldExpAdvantage",
    bounty_gold |-> "bountyGold",
    stealth_wards_placed |-> "stealthWardsPlaced" ]

\* C14: a challenge-sourced field holds the value of its key in the
\* participant's challenges map when the key is there, 0 included (the
\* coverage as a percentage), and null when the map is absent, empty or
\* lacks the key.
C14_ChallengeFieldsKeepValue ==
  sc.phase = "fields" =>
    LET map == IF IsNull(sc.in) THEN <<>> ELSE Val(sc.in) IN
    /\ \A f \in DOMAIN challengeSource :
         sc.out[f] = IF challengeSource[f] \in DOMAIN map
                     THEN Some(map[challengeSource[f]]) ELSE Null
    /\ sc.out.control_ward_uptime_percent =
         IF "controlWardTimeCoverageInRiver" \in DOMAIN map
         THEN Some(<<map.controlWardTimeCoverageInRiver[1] * 100,
                     map.controlWardTimeCoverageInRiver[2]>>)
         ELSE Null

\* C15: a ranked notification for a match of zero or negative duration,
\* once it reaches the computation, ends FAILED, is reported in
\* batchItemFailures and leaves no participant row for the match (store
\* errors apart).
C15_NonPositiveDurationFails ==
  \A w \in Workers :
    \A r \in finished(w) :
      (/\ faults = 0
       /\ Body[r.msg].json
       /\ isRanked(Body[r.msg].queueId)
       /\ Match[Body[r.msg].matchId].duration_seconds <= 0
       /\ "computeParticipantAnalytics" \in r.calls) =>
        /\ r.outcome = "FAILED"
        /\ r.msg \in failedIds(w)
        /\ \A x \in rowsOf(participantAnalytics) : x.match_id # Body[r.msg].matchId

malformed(msg) == ~Body[msg].json \/ Body[msg].matchId = "" \/ IsNull(Body[msg].queueId)

\* C16: a notification whose body is not JSON, or lacks matchId or queueId,
\* ends FAILED and is reported in batchItemFailures.
C16_MalformedFails ==
  \A w \in Workers :
    \A r \in finished(w) :
      malformed(r.msg) => (r.outcome = "FAILED" /\ r.msg \in failedIds(w))

\* the participant rows of a player in the given matches
playerRows(player, matchIds) ==
  {r \in rowsOf(participantAnalytics) :
     r.player_profile_id = Some(player) /\ r.match_id \in matchIds}

\* the window of a call: the matchCount most recent qualifying matches
windowOf(call) ==
  matchIdsQuery(call.player_profile_id, call.match_count, call.queue_id, Null, Null)

rollingRowsOf(call) ==
  {a \in rowsOf(rollingAnalytics) :
     /\ a.player_profile_id = call.player_profile_id
     /\ a.match_count = call.match_count
     /\ a.queue_id = call.queue_id
     /\ IsNull(a.champion_id)
     /\ IsNull(a.team_position)}

\* C17: after computeRollingAnalytics for a player with analytics in the
\* window, the rolling row of the call lists the N most recent qualifying
\* matches and its averages are the means over the participant rows of those
\* matches only.
C17_AveragesOverWindow ==
  ops.n > 0 =>
    LET call == Val(ops.call)
        window == windowOf(call)
        rows == playerRows(call.player_profile_id, Range(window))
    IN rows # {} =>
         \E a \in rollingRowsOf(call) :
           /\ a.match_ids = window
           /\ a.total_matches = Cardinality(rows)
           /\ a.avg_overall_performance = Some(<<sumOverall(rows), Cardinality(rows)>>)

RECURSIVE sumEconomy(_)
sumEconomy(S) ==
  IF S = {} THEN 0
  ELSE LET r == CHOOSE x \in S : TRUE IN Val(r.economy_score) + sumEconomy(S \ {r})

\* C19: when the mean economy score of the newer half of the window exceeds
\* that of the older half by more than 5, the rolling row of the call stores
\* economy_trend 'improving'.
C19_TrendStored ==
  ops.n > 0 =>
    LET call == Val(ops.call)
        window == windowOf(call)
        half == Len(window) \div 2
        scored(ids) == {r \in playerRows(call.player_profile_id, ids) :
                          ~IsNull(r.economy_score)}
        newer == scored(Range(SubSeq(window, 1, half)))
        older == scored(Range(SubSeq(window, half + 1, Len(window))))
    IN (/\ newer # {}
        /\ older # {}
        /\ sumEconomy(newer) * Cardinality(older) - sumEconomy(older) * Cardinality(newer)
             > 50 * Cardinality(newer) * Cardinality(older)) =>
         \E a \in rollingRowsOf(call) : a.economy_trend = Some("improving")

\* C18: calculate_trend gives 'improving' exactly when the newer (second)
\* half's mean minus the older (first) half's mean is strictly greater than
\* the threshold, 'declining' exactly when the older minus the newer is
\* strictly greater, and 'stable' otherwise; a difference equal to the
\* threshold is 'stable'.
C18_TrendBoundary ==
  sc.phase = "trend" =>
    LET known == ~IsNull(sc.first_half_avg) /\ ~IsNull(sc.second_half_avg)
        delta == Val(sc.second_half_avg) - Val(sc.first_half_avg)
    IN /\ sc.out = "improving" <=> (known /\ delta > sc.threshold)
       /\ sc.out = "declining" <=> (known /\ 0 - delta > sc.threshold)
       /\ sc.out \in {"improving", "declining", "stable"}
       /\ (known /\ (delta = sc.threshold \/ 0 - delta = sc.threshold)) => sc.out = "stable"

C18_Witness ==
  /\ sc.phase = "trend"
  /\ sc.first_half_avg = Some(7000)
  /\ sc.second_half_avg = Some(7500)
  /\ sc.threshold = 500
  /\ sc.out = "stable"

\* the events of a match that count for each "first" of the timeline row
eventsOfKind(matchId, kind) ==
  {e \in MatchTimelineEvent :
     /\ e.match_id = matchId
     /\ CASE kind = "blood" -> e.event_type = "CHAMPION_KILL"
          [] kind = "tower" -> e.event_type = "BUILDING_KILL" /\ e.building_type = "TOWER_BUILDING"
          [] kind = "dragon" -> e.event_type = "ELITE_MONSTER_KILL" /\ e.monster_type = "DRAGON"
          [] kind = "baron" -> e.event_type = "ELITE_MONSTER_KILL" /\ e.monster_type = "BARON_NASHOR"}

earliestOf(events) == CHOOSE e \in events : \A x \in events : e.timestamp_ms <= x.timestamp_ms

killerTeam(e) ==
  LET killers == {p \in participantsOf(e.match_id) : p.participant_id = e.killer_participant_id}
  IN IF killers = {} THEN Null ELSE Some((CHOOSE p \in killers : TRUE).team_id)

firstIs(matchId, kind, timestamp, team) ==
  LET events == eventsOfKind(matchId, kind) IN
  IF events = {} THEN IsNull(timestamp) /\ IsNull(team)
  ELSE /\ timestamp = Some(earliestOf(events).timestamp_ms)
       /\ team = killerTeam(earliestOf(events))

\* C20: in every timeline row, for first champion kill, first tower, first
\* dragon and first baron, the timestamp is the smallest among the match's
\* events of the kind and the team is that of the event's killer; with no
\* such event the fields of the kind are null.
C20_FirstEvents ==
  \A r \in rowsOf(timelineAnalytics) :
    /\ firstIs(r.match_id, "blood", r.first_blood_timestamp_ms, r.first_blood_team_id)
    /\ firstIs(r.match_id, "tower", r.first_tower_timestamp_ms, r.first_tower_team_id)
    /\ firstIs(r.match_id, "dragon", r.first_dragon_timestamp_ms, r.first_dragon_team_id)
    /\ firstIs(r.match_id, "baron", r.first_baron_timestamp_ms, r.first_baron_team_id)

----------------------------------------------------------------------------
(* Objective and kill participation.                                       *)

\* C21: in every participant analytics row the objective participation rate
\* is the participant's own takedowns over the team's objective total times
\* 100 whenever the team total is positive (0 for a participant without
\* takedowns), and null only when the team total is 0.
C21_ObjectiveRateOverTeamTotal ==
  \A r \in rowsOf(participantAnalytics) :
    LET p == CHOOSE q \in MatchParticipant : q.id = r.match_participant_id
        teamTotal == teamObjectivesTotal(r.match_id, p.team_id)
        own == r.baron_participation + r.dragon_participation + r.tower_participation
    IN IF teamTotal > 0
       THEN r.objective_participation_rate = Some(<<own * 100, teamTotal>>)
       ELSE IsNull(r.objective_participation_rate)

\* C22: in every participant analytics row kill participation is
\* (kills + assists) over the team's kills times 100 when the team has kills,
\* and null when the team has none.
C22_KillParticipation ==
  \A r \in rowsOf(participantAnalytics) :
    LET p == CHOOSE q \in MatchParticipant : q.id = r.match_participant_id
        team == {q \in participantsOf(r.match_id) : q.team_id = p.team_id}
        teamKills == sumKills(team)
    IN IF teamKills > 0
       THEN r.kill_participation = Some(<<(p.kills + p.assists) * 100, teamKills>>)
       ELSE IsNull(r.kill_participation)

\* a stored row of a team with kills (8 kills and 12 assists of the team's 8
\* kills) next to a stored row of a team without kills
C22_Witness ==
  /\ \E r \in rowsOf(participantAnalytics) :
       r.match_participant_id = "pt11" /\ r.kill_participation = Some(<<2000, 8>>)
  /\ \E r \in rowsOf(participantAnalytics) :
       r.match_participant_id = "pt12" /\ IsNull(r.kill_participation)

C26_NoParticipantsNoRows ==
  /\ \A r \in rowsOf(participantAnalytics) : participantsOf(r.match_id) # {}
  /\ \A w \in Workers :
       \A d \in finished(w) :
         (/\ participantsOf(Body[d.msg].matchId) = {}
          /\ "computeParticipantAnalytics" \in d.calls
          /\ faults = 0) =>
           /\ ~d.threw
           /\ "participant" \notin d.wrote
           /\ "computeTimelineAnalytics" \in d.calls
           /\ d.outcome = "DONE"

\* the notification of match M6, which has no participant records, has been
\* processed through computeParticipantAnalytics
C26_Witness ==
  \E w \in Workers :
    \E d \in finished(w) :
      /\ d.msg = "m8"
      /\ "computeParticipantAnalytics" \in d.calls
      /\ d.outcome = "DONE"
      /\ \A r \in rowsOf(participantAnalytics) : r.match_id # "M6"

\* C27: within one message the rolling recomputation starts only after the
\* participant analytics and the timeline analytics of the match have both
\* been written by that message; a message whose participant or timeline
\* step threw has run no rolling recomputation.
C27_RollingAfterBothWritten ==
  \A w \in Workers :
    /\ wk[w].pc \in {"players", "rolling"} =>
         /\ {"participant", "timeline"} \subseteq wk[w].cur.wrote
         /\ complete(matchOf(wk[w]))
    /\ "computeRollingAnalyticsForMatch" \in wk[w].cur.calls =>
         {"participant", "timeline"} \subseteq wk[w].cur.wrote
    /\ \A d \in finished(w) :
         /\ "computeRollingAnalyticsForMatch" \in d.calls =>
              {"participant", "timeline"} \subseteq d.wrote
         /\ (d.threw /\ ~({"participant", "timeline"} \subseteq d.wrote)) =>
              /\ d.calls \cap {"computeRollingAnalyticsForMatch", "computeRollingAnalytics"} = {}
              /\ d.attempted = {}
              /\ "rolling" \notin d.wrote

\* one message ran its rolling recomputation after both writes and another
\* failed in the timeline step after its participant rows were written
C27_Witness ==
  /\ \E w \in Workers :
       \E d \in finished(w) :
         /\ "computeRollingAnalytics" \in d.calls
         /\ {"participant", "timeline"} \subseteq d.wrote
  /\ \E w \in Workers :
       \E d \in finished(w) :
         /\ d.threw
         /\ "computeTimelineAnalytics" \in d.calls
         /\ d.wrote = {"participant"}

----------------------------------------------------------------------------
(* ExponentialBackoff.executeWithBackoff: one call with a chosen maxRetries *)
(* against an operation that succeeds or fails in every way; sc carries    *)
(* the loop's variables and the history of the call.                       *)

DEFAULT_BASE_DELAY == 1000
DEFAULT_MAX_DELAY == 30000
DEFAULT_MAX_RETRIES == 3

\* error.response?.status of a failure; Null is an error without response
ErrorStatus == {Null, Some(400), Some(404), Some(429), Some(499), Some(500)}

\* what one await operation() can do at the given attempt
operationOutcomes(attempt) ==
  {[ok |-> TRUE, at |-> attempt, status |-> Null]} \cup
  {[ok |-> FALSE, at |-> attempt, status |-> st] : st \in ErrorStatus}

\* variant: a rate limit is treated like the other client errors
clientError_with429(error) ==
  ~IsNull(error.status) /\ Val(error.status) >= 400 /\ Val(error.status) < 500

\* a 4xx status other than 429: thrown at once
clientError(error) ==
  /\ ~IsNull(error.status) /\ Val(error.status) >= 400 /\ Val(error.status) < 500
  /\ Val(error.status) # 429

\* Math.min(baseDelay * Math.pow(2, attempt), maxDelay)
backoffDelay(attempt, baseDelay, maxDelay) ==
  IF baseDelay * 2^attempt < maxDelay THEN baseDelay * 2^attempt ELSE maxDelay

InitBackoff ==
  /\ quietPipeline
  /\ rollingAnalytics = EmptyBag
  /\ ops = NoOps
  /\ \E maxRetries \in 0..DEFAULT_MAX_RETRIES :
       sc = [ phase |-> "backoff", maxRetries |-> maxRetries, attempt |-> 0,
              status |-> "running", outcomes |-> <<>>, delays |-> <<>>,
              lastError |-> Null, settled |-> Null ]

\* variant: the loop neither stops at maxRetries nor throws on the last attempt
Attempt_noLimit ==
  /\ sc.phase = "backoff"
  /\ sc.status = "running"
  /\ \E outcome \in operationOutcomes(sc.attempt), jitter \in {0, 1} :
       LET called == [sc EXCEPT !.outcomes = Append(@, outcome)]
           delay == backoffDelay(sc.attempt, DEFAULT_BASE_DELAY, DEFAULT_MAX_DELAY)
       IN sc' = IF outcome.ok
                THEN [called EXCEPT !.status = "returned", !.settled = Some(outcome)]
                ELSE IF clientError(outcome)
                THEN [called EXCEPT !.status = "thrown", !.lastError = Some(outcome),
                                    !.settled = Some(outcome)]
                ELSE [called EXCEPT !.lastError = Some(outcome),
                                    !.attempt = @ + 1,
                                    !.delays = Append(@, delay + jitter * (delay \div 20))]
  /\ UNCHANGED <<pipelineVars, rollingAnalytics, ops>>

\* one turn of the for loop: await operation(), then return, throw, or sleep
\* and go on; past the loop, throw lastError
Attempt ==
  /\ sc.phase = "backoff"
  /\ sc.status = "running"
  /\ IF sc.attempt > sc.maxRetries
     THEN sc' = [sc EXCEPT !.status = "thrown", !.settled = sc.lastError]
     ELSE \E outcome \in operationOutcomes(sc.attempt), jitter \in {0, 1} :
       LET called == [sc EXCEPT !.outcomes = Append(@, outcome)]
           delay == backoffDelay(sc.attempt, DEFAULT_BASE_DELAY, DEFAULT_MAX_DELAY)
       IN sc' = IF outcome.ok
                THEN [called EXCEPT !.status = "returned", !.settled = Some(outcome)]
                ELSE IF clientError(outcome) \/ sc.attempt = sc.maxRetries
                THEN [called EXCEPT !.status = "thrown", !.lastError = Some(outcome),
                                    !.settled = Some(outcome)]
                ELSE [called EXCEPT !.lastError = Some(outcome),
                                    !.attempt = @ + 1,
                                    !.delays = Append(@, delay + jitter * (delay \div 20))]
  /\ UNCHANGED <<pipelineVars, rollingAnalytics, ops>>

NextBackoff == Attempt

SpecBackoff == InitBackoff /\ [][NextBackoff]_vars

\* an awaited operation settles and a timer fires: a pending turn is taken
FairBackoff == SpecBackoff /\ WF_vars(NextBackoff)

C30_ClientErrorsNotRetried ==
  sc.phase = "backoff" =>
    \A i \in 1..Len(sc.outcomes) :
      LET error == sc.outcomes[i]
          fourXX == ~IsNull(error.status) /\ Val(error.status) \in 400..499
      IN ~error.ok =>
           /\ (fourXX /\ error.status # Some(429)) =>
                /\ i = Len(sc.outcomes)
                /\ sc.status = "thrown"
                /\ sc.settled = Some(error)
                /\ Len(sc.delays) = i - 1
           /\ ((~fourXX \/ error.status = Some(429)) /\ i <= sc.maxRetries) =>
                /\ Len(sc.delays) >= i
                /\ Len(sc.outcomes) > i \/ (sc.status = "running" /\ sc.attempt = i)

\* a 429 was retried after a delay and the following 404 ended the call
C30_Witness ==
  /\ sc.phase = "backoff"
  /\ sc.maxRetries = DEFAULT_MAX_RETRIES
  /\ Len(sc.outcomes) = 2
  /\ sc.outcomes[1].status = Some(429)
  /\ sc.outcomes[2].status = Some(404)
  /\ ~sc.outcomes[2].ok
  /\ sc.status = "thrown"
  /\ Len(sc.delays) = 1

----------------------------------------------------------------------------
(* Bronze ingestion: the ingestMatch handler, MatchIngestionService and    *)
(* the bronze MatchRepository.  Two invocations for the same external      *)
(* match run one after the other or interleaved; every executeStatement is *)
(* a transaction of its own.  sc carries the bronze tables and the         *)
(* position of each invocation.                                            *)

Invocations == {"i1", "i2"}

\* the child tables in the order ingestMatch loads them
ChildTables == <<"participant", "team", "frame", "event">>

\* the child tables that carry a UNIQUE constraint within a match
UniqueTables == {"participant", "team", "frame"}

\* MatchDataBuilder.buildCompleteMatchData: the rows of one API response
completeData(version, matchId) ==
  LET keys == [participant |-> {1, 2}, team |-> {100}, frame |-> {0},
               event |-> {125000, 600000}]
  IN [t \in Range(ChildTables) |->
        {[match_id |-> matchId, key |-> k, data |-> version] : k \in keys[t]}]

\* variant: a plain INSERT without ON CONFLICT
upsertMatch_insertOnly(table, externalMatchId, version) ==
  table (+) SetToBag({[id |-> externalMatchId, external_match_id |-> externalMatchId,
                       data |-> version]})

\* INSERT INTO match ... ON CONFLICT (game, external_match_id) DO UPDATE
upsertMatch(table, externalMatchId, version) ==
  LET kept == {r \in BagToSet(table) : r.external_match_id # externalMatchId}
  IN [r \in kept |-> table[r]] (+)
     SetToBag({[id |-> externalMatchId, external_match_id |-> externalMatchId,
                data |-> version]})

\* DELETE FROM <child table> WHERE match_id = :match_id
deleteRows(table, matchId) ==
  [r \in {x \in BagToSet(table) : x.match_id # matchId} |-> table[r]]

\* one batch INSERT: it fails as a whole on a UNIQUE violation
batchInsert(table, rows, unique) ==
  IF unique /\ \E r \in rows, x \in BagToSet(table) : x.match_id = r.match_id /\ x.key = r.key
  THEN [threw |-> TRUE, table |-> table]
  ELSE [threw |-> FALSE, table |-> table (+) SetToBag(rows)]

\* variant: a failure to publish the event reaches the outer catch
publishCatch_rethrow(threw) == "rethrow"

\* the handler's catch around the publication: log the error and go on
publishCatch(threw) == "continue"

\* the catch of ingestMatch and the handler's 500 response
ingestFailed(s) ==
  [s EXCEPT !.pc = "done", !.result = Some([success |-> FALSE]),
            !.response = Some([statusCode |-> 500, success |-> FALSE])]

InitIngest ==
  /\ quietPipeline
  /\ rollingAnalytics = EmptyBag
  /\ ops = NoOps
  /\ \E version \in {1, 2} :
       sc = [ phase |-> "ingest",
              match |-> EmptyBag,
              child |-> [t \in Range(ChildTables) |-> EmptyBag],
              inv |-> [i \in Invocations |->
                         [ pc |-> "idle", k |-> 1, externalMatchId |-> "NA1_1",
                           data |-> IF i = "i1" THEN 1 ELSE version,
                           after |-> {}, result |-> Null, response |-> Null,
                           published |-> "none" ]] ]

\* the handler is invoked; getMatch and getTimeline fetch the API response
StartIngest(i) ==
  LET s == sc.inv[i] IN
  /\ sc.phase = "ingest"
  /\ s.pc = "idle"
  /\ \E ok \in OkChoices :
       /\ faults' = IF ok THEN faults ELSE faults + 1
       /\ sc' = [sc EXCEPT !.inv[i] =
                   IF ok
                   THEN [s EXCEPT !.pc = "upsert",
                                  !.after = {j \in Invocations : sc.inv[j].pc = "done"}]
                   ELSE ingestFailed(s)]
  /\ UNCHANGED <<participantAnalytics, timelineAnalytics, rollingAnalytics, visible,
                 receives, dlq, wk, snap, partial, ops>>

\* repository.upsertMatch
UpsertMatch(i) ==
  LET s == sc.inv[i] IN
  /\ sc.phase = "ingest"
  /\ s.pc = "upsert"
  /\ \E ok \in OkChoices :
       /\ faults' = IF ok THEN faults ELSE faults + 1
       /\ sc' = IF ok
                THEN [sc EXCEPT !.match = upsertMatch(@, s.externalMatchId, s.data),
                                !.inv[i] = [s EXCEPT !.pc = "delete"]]
                ELSE [sc EXCEPT !.inv[i] = ingestFailed(s)]
  /\ UNCHANGED <<participantAnalytics, timelineAnalytics, rollingAnalytics, visible,
                 receives, dlq, wk, snap, partial, ops>>

\* the DELETE that opens insertParticipants, insertTeams, insertTimelineFrames
\* and insertTimelineEvents
DeleteChild(i) ==
  LET s == sc.inv[i]
      t == ChildTables[s.k]
  IN /\ sc.phase = "ingest"
     /\ s.pc = "delete"
     /\ \E ok \in OkChoices :
          /\ faults' = IF ok THEN faults ELSE faults + 1
          /\ sc' = IF ok
                   THEN [sc EXCEPT !.child[t] = deleteRows(@, s.externalMatchId),
                                   !.inv[i] = [s EXCEPT !.pc = "insert"]]
                   ELSE [sc EXCEPT !.inv[i] = ingestFailed(s)]
     /\ UNCHANGED <<participantAnalytics, timelineAnalytics, rollingAnalytics, visible,
                    receives, dlq, wk, snap, partial, ops>>

\* the batch INSERT of the same method (the rows of a match fit one batch);
\* after the events ingestMatch returns success
InsertChild(i) ==
  LET s == sc.inv[i]
      t == ChildTables[s.k]
      res == batchInsert(sc.child[t], completeData(s.data, s.externalMatchId)[t],
                         t \in UniqueTables)
  IN /\ sc.phase = "ingest"
     /\ s.pc = "insert"
     /\ \E ok \in OkChoices :
          /\ faults' = IF ok THEN faults ELSE faults + 1
          /\ sc' = IF ok /\ ~res.threw
                   THEN [sc EXCEPT !.child[t] = res.table,
                                   !.inv[i] =
                                     IF s.k < Len(ChildTables)
                                     THEN [s EXCEPT !.pc = "delete", !.k = @ + 1]
                                     ELSE [s EXCEPT !.pc = "publish",
                                                    !.result = Some([success |-> TRUE])]]
                   ELSE [sc EXCEPT !.inv[i] = ingestFailed(s)]
     /\ UNCHANGED <<participantAnalytics, timelineAnalytics, rollingAnalytics, visible,
                    receives, dlq, wk, snap, partial, ops>>

\* the handler after a successful ingestion: the queue_id query and the
\* publication inside their own try, then the response
Publish(i) ==
  LET s == sc.inv[i] IN
  /\ sc.phase = "ingest"
  /\ s.pc = "publish"
  /\ \E publishOk \in BOOLEAN :
       sc' = [sc EXCEPT !.inv[i] =
                IF ~publishOk /\ publishCatch(TRUE) = "rethrow"
                THEN [s EXCEPT !.pc = "done", !.published = "failed",
                               !.response = Some([statusCode |-> 500, success |-> FALSE])]
                ELSE [s EXCEPT !.pc = "done",
                               !.published = IF publishOk THEN "ok" ELSE "failed",
                               !.response = Some([statusCode |-> 200, success |-> TRUE])]]
  /\ UNCHANGED <<pipelineVars, rollingAnalytics, ops>>

NextIngest ==
  \E i \in Invocations :
    \/ StartIngest(i)
    \/ UpsertMatch(i)
    \/ DeleteChild(i)
    \/ InsertChild(i)
    \/ Publish(i)

SpecIngest == InitIngest /\ [][NextIngest]_vars

\* C24: when ingestMatch is called again for a match that an earlier call
\* has stored, and the call succeeds, the store holds exactly one match row
\* and, in each of the participant, team, frame and event tables, exactly the
\* rows of the latest call, each once.
C24_ReingestLeavesOneSet ==
  sc.phase = "ingest" =>
    \A i \in Invocations :
      LET s == sc.inv[i] IN
      (/\ s.pc \in {"publish", "done"}
       /\ s.result = Some([success |-> TRUE])
       /\ \E j \in s.after : sc.inv[j].result = Some([success |-> TRUE])) =>
        /\ BagCardinality(sc.match) = 1
        /\ \A r \in BagToSet(sc.match) : r.data = s.data
        /\ \A t \in Range(ChildTables) :
             sc.child[t] = SetToBag(completeData(s.data, s.externalMatchId)[t])

\* the second call, with another API response, succeeded after the first
C24_Witness ==
  /\ sc.phase = "ingest"
  /\ sc.inv["i1"].result = Some([success |-> TRUE])
  /\ sc.inv["i2"].after = {"i1"}
  /\ sc.inv["i2"].data = 2
  /\ sc.inv["i2"].pc = "done"
  /\ sc.inv["i2"].result = Some([success |-> TRUE])
  /\ BagCardinality(sc.child["event"]) = 2

\* C25: when the publication of the match-ingested event fails after a
\* successful ingestion, the handler still answers 200 with success, the
\* ingestion result is kept and the bronze tables are left as they were.
C25_PublishFailureKeepsOutcome ==
  /\ [](sc.phase = "ingest" =>
          \A i \in Invocations :
            (sc.inv[i].pc = "done" /\ sc.inv[i].result = Some([success |-> TRUE])) =>
              sc.inv[i].response = Some([statusCode |-> 200, success |-> TRUE]))
  /\ [][\A i \in Invocations :
          (/\ sc.phase = "ingest"
           /\ sc.inv[i].pc = "publish"
           /\ sc'.inv[i].pc = "done") =>
            /\ sc'.match = sc.match
            /\ sc'.child = sc.child
            /\ sc'.inv[i].result = sc.inv[i].result]_vars

\* an invocation that stored its rows, failed to publish and answered 200
C25_Witness ==
  /\ sc.phase = "ingest"
  /\ \E i \in Invocations :
       /\ sc.inv[i].pc = "done"
       /\ sc.inv[i].published = "failed"
       /\ sc.inv[i].response = Some([statusCode |-> 200, success |-> TRUE])
       /\ sc.child["participant"] = SetToBag(completeData(sc.inv[i].data, "NA1_1")["participant"])

\* C28: when two ingestMatch invocations for the same match ran concurrently
\* and both succeeded (no store error), the event table holds exactly one
\* copy of the match's timeline events: the events of one of the
\* invocations, each stored once.
C28_ConcurrentIngestOneCopy ==
  (/\ sc.phase = "ingest"
   /\ faults = 0
   /\ \A i \in Invocations :
        /\ sc.inv[i].pc \in {"publish", "done"}
        /\ sc.inv[i].result = Some([success |-> TRUE])
        /\ sc.inv[i].after = {}) =>
    \E i \in Invocations :
      sc.child["event"] = SetToBag(completeData(sc.inv[i].data, "NA1_1")["event"])

====
